---- MODULE Spec2Model ----
(***************************************************************************)
(* Camera ingest module: the worker registry (camera_store, worker_store,  *)
(* task_store), the CameraWorker read loop (_run) and the frame-processing *)
(* pipeline of src/app/services/camera_worker.py, as an asyncio state      *)
(* machine.  A step of the model is what one coroutine does between two    *)
(* suspension points (await of a task, a thread call, a publish, a sleep). *)
(*                                                                         *)
(* Specifications:                                                         *)
(*   Spec        registry calls (register_camera, unregister_camera,       *)
(*               start_worker, stop_worker) interleaved at await points    *)
(*               with the read-loop tasks they create.                     *)
(*   SpecFair    Spec with the fairness asyncio's event loop gives: a      *)
(*               cancelled task is run, a coroutine awaiting a finished    *)
(*               task is resumed.  Timers and I/O completions are not fair.*)
(*   SpecSeq     registry calls one at a time (each returns before the     *)
(*               next begins).                                             *)
(*   SpecDirect  Spec plus direct CameraWorker.stop() calls on a worker    *)
(*               object a caller got from get_worker().                    *)
(*   SpecRegister  register_camera / unregister_camera calls only.         *)
(*   SpecWorker  one pull camera registered once and read for many frames. *)
(*   SpecSeqRegister  register_camera / unregister_camera one at a time.   *)
(*   SpecPush    push ingestion and on-demand frame reads (api/cameras.py).*)
(*   SpecRace    concurrent register_camera calls whose workers stream.    *)
(*   SpecBackoff one pull worker through many open attempts.               *)
(*   SpecBuffer  a CircularBuffer on its own (utils/circular_buffer.py).   *)
(*   SpecScenario  a worker fed identical frames, then a changed frame.    *)
(*   SpecClock   one streaming worker while time passes.                   *)
(*   SpecRestart a camera registered twice, each worker streaming, while   *)
(*               time passes.                                              *)
(***************************************************************************)
EXTENDS Integers, Sequences, FiniteSets, TLC

\* ---------------------------------------------------------------- bounds
MaxWorkers == 3        \* CameraWorker objects constructed in one behaviour
MaxCalls == 3          \* registry / stop() calls issued in one behaviour
MaxRegisterCalls == MaxCalls + 1   \* calls issued under SpecRegister
MaxOpens == 2          \* open attempts completed per worker
MaxIO == 4             \* steps the read-loop tasks take in all under Spec
MaxIOWorker == 19      \* steps the read-loop task takes under SpecWorker
MaxFramesWorker == 12  \* frames read by the worker under SpecWorker
MaxIORace == 8         \* steps the read-loop tasks take in all under SpecRace
MaxFramesRace == 1     \* frames read per worker under SpecRace
MaxOpensBackoff == 8   \* open attempts completed by the worker under SpecBackoff
MaxIOBackoff == 25     \* steps the read-loop task takes under SpecBackoff
MaxCapacity == 3       \* capacities of the CircularBuffer under SpecBuffer
MaxPuts == 5           \* put calls on the CircularBuffer under SpecBuffer
IdenticalFrames == 20  \* identical frames before the changed one under SpecScenario
MaxIOScenario == 30    \* steps the read-loop task takes under SpecScenario
MaxFramesClock == 18   \* frames read by the worker under SpecClock
MaxIOClock == 30       \* steps the read-loop task takes under SpecClock
MaxFramesRestart == 18 \* frames read per worker under SpecRestart
MaxIORestart == 40     \* steps the read-loop tasks take in all under SpecRestart

\* ------------------------------------------------------ program constants
BufferCapacity == 10          \* CameraWorker.__init__ buffer_capacity
InitialReconnectDelay == 1    \* self.reconnect_delay = 1.0
MaxReconnectDelay == 60       \* min(60, self.reconnect_delay * 2)
EVENT_PUB_INTERVAL == 1
frames_to_skip == 5
YOLO_TRIGGER_COOLDOWN == 3
PERSON_COOLDOWN_SECONDS == 10
ENABLE_PERSON_DETECTION == TRUE

CamIds == {"cam_1"}
NoCam == "none"
NoWorker == 0
NoFrame == -1
Images == {0, 1}              \* frame contents; two images differ by a large region
Workers == 1..MaxWorkers
CallIds == 1..MaxRegisterCalls
PullTypes == {"rtsp", "mjpeg"}

VARIABLES
    camera_store,   \* [CamIds -> camera record | NoCamera]
    worker_store,   \* [CamIds -> worker | NoWorker]
    task_store,     \* [CamIds -> worker whose read-loop task is stored | NoWorker]
    workers,        \* [Workers -> CameraWorker object and its read-loop task]
    calls,          \* [CallIds -> coroutine of a registry call]
    gauge,          \* metrics.CAMERA_STATUS per camera id: -1 unset, 0, 1
    now,            \* time.time()
    io,             \* steps the read-loop tasks have taken (bounded by MaxIO under Spec)
    sink,           \* the events received by the event sink (Redis), in order
    ring            \* a CircularBuffer object on its own (SpecBuffer)

vars == <<camera_store, worker_store, task_store, workers, calls, gauge, now, io, sink, ring>>

NoCamera == [source_type |-> "none", source_url |-> FALSE, status |-> "none"]

\* Camera(id=..., source_type=type, source_url=url): status defaults to
\* "disconnected"
Camera(type, url) == [source_type |-> type, source_url |-> url, status |-> "disconnected"]

\* the Camera that register_new_camera builds and hands to register_camera:
\* Camera(..., status="registered")
RegisteredCamera(type, url) == [Camera(type, url) EXCEPT !.status = "registered"]

\* A slot no CameraWorker has been constructed in.  Beside the object's fields:
\*   task, cancel, pc   the asyncio task of _run: none / pending / done, whether
\*                      task.cancel() was requested, the await it is (was) at
\*   cap, unreleased    the local `cap` of _run and the handles opened and not
\*                      yet released by cap.release()
\*   thread             the call the task runs in a thread with asyncio.to_thread
\*                      at pc open / release: running, or returned (ok / failed
\*                      for cv2.VideoCapture, returned for cap.release).  The
\*                      thread is not stopped by task.cancel()
\*   attempts, opened   cv2.VideoCapture calls started / returned
\*   frames             frames handed to _process_frame
\*   events             what the worker published, in order
\*   errors             how often the `except Exception` branch of _run ran
\*   fails              failed open attempts since the last successful one
\*   stop_called, stop_returned   stop() was called / has returned on the object
\*   triggers           the calls of _detect_persons_yolo: the frame number, the
\*                      time read for the cooldown test (tested, l.182) and
\*                      the time the cooldown was armed at (at, l.185)
\*   current_time       the local current_time of the last _process_frame
\*   detections         the inference results with a person: frame number and time
\*   stamp, stamps      the "timestamp" of the event being published / of each
\*                      event in `events`
NoObject ==
    [cam |-> NoCam, source_type |-> "none", is_running |-> FALSE, stop_event |-> FALSE,
     reconnect_delay |-> 0, last_event_pub_time |-> 0, person_cooldown_end |-> 0,
     yolo_trigger_cooldown_end |-> 0, frame_counter |-> 0, motion_last_frame |-> NoFrame,
     buffer |-> <<>>, task |-> "none", cancel |-> FALSE, pc |-> "none",
     cap |-> "none", opened |-> 0, unreleased |-> 0, frames |-> 0, frame |-> NoFrame,
     events |-> <<>>, errors |-> 0, fails |-> 0, stop_called |-> FALSE, stop_returned |-> FALSE,
     triggers |-> <<>>, detections |-> <<>>, stamp |-> 0, stamps |-> <<>>,
     thread |-> "none", attempts |-> 0, current_time |-> 0]

\* CameraWorker.__init__
NewWorker(cid) ==
    [NoObject EXCEPT !.cam = cid, !.source_type = "rtsp",
                     !.reconnect_delay = InitialReconnectDelay]

Min(a, b) == IF a < b THEN a ELSE b

\* put on a list that refuses the new item when it is full
put_DropsNewest(buf, item, capacity) ==
    IF Len(buf) < capacity THEN Append(buf, item) ELSE buf

\* CircularBuffer.put on a deque(maxlen=capacity)
put(buf, item, capacity) ==
    IF Len(buf) < capacity THEN Append(buf, item)
    ELSE IF capacity = 0 THEN buf
    ELSE Append(Tail(buf), item)

\* channel=f"camera:{self.camera_id}"
Channel(cid) == <<"camera", cid>>

\* CircularBuffer.get_latest; NoFrame stands for None
get_latest(buf) == IF buf = <<>> THEN NoFrame ELSE buf[Len(buf)]

\* CircularBuffer.get_all
get_all(buf) == buf

\* redis_publisher.publish having succeeded: the event is on the channel
Published(r, kind) ==
    [r EXCEPT !.events = Append(@, [channel |-> Channel(r.cam), event_type |-> kind]),
              !.stamps = Append(@, r.stamp)]

\* redis_publisher.publish: the sink receives the event unless the call raises
Sent(cid, kind, ok) ==
    sink' = IF ok THEN Append(sink, [channel |-> Channel(cid), event_type |-> kind])
            ELSE sink

\* a CircularBuffer not constructed
NoRing == [capacity |-> 0, items |-> <<>>, puts |-> <<>>]

\* ------------------------------------------------- the read loop, _run
\* `while not self._stop_event.is_set()` of the outer loop, then the open
OuterLoop(r) ==
    IF r.stop_event THEN [r EXCEPT !.task = "done", !.pc = "end", !.thread = "none"]
    ELSE [r EXCEPT !.pc = "open", !.thread = "running", !.attempts = @ + 1]

\* `while not self._stop_event.is_set()` of the inner loop, then the read;
\* leaving the loop goes to cap.release
InnerLoop(r) ==
    IF r.stop_event THEN [r EXCEPT !.pc = "release", !.thread = "running"]
    ELSE [r EXCEPT !.pc = "read"]

\* `except Exception` of _run: the error is printed and the loop sleeps 5s
Raised(r) == [r EXCEPT !.pc = "errpause", !.errors = @ + 1]

\* _detect_simple_motion on the blurred gray frame: result
DetectSimpleMotion(last, img) == last # NoFrame /\ last # img

\* _detect_persons_yolo up to its first await; t is its time.time() (l.190)
DetectPersonsYolo(r, t) ==
    IF t < r.person_cooldown_end THEN InnerLoop(r) ELSE [r EXCEPT !.pc = "infer"]

\* ProcessFrameML without the test of yolo_trigger_cooldown_end: every frame
\* the skip counter lets through is handed to the motion detector
ProcessFrameML_NoTriggerCooldown(r, c) ==
    IF r.frame_counter + 1 > frames_to_skip
    THEN LET r2 == [r EXCEPT !.frame_counter = 0, !.motion_last_frame = r.frame] IN
         IF DetectSimpleMotion(r.motion_last_frame, r.frame)
         THEN DetectPersonsYolo(
                 [r2 EXCEPT !.yolo_trigger_cooldown_end = c[2] + YOLO_TRIGGER_COOLDOWN,
                            !.triggers = Append(@, [frame |-> r.frames, tested |-> c[1],
                                                    at |-> c[2]])],
                 c[3])
         ELSE InnerLoop(r2)
    ELSE InnerLoop([r EXCEPT !.frame_counter = @ + 1])

\* _process_frame after the throttled publish: the motion / inference gate.
\* c is what its three time.time() calls return, in order: the cooldown test
\* (l.182), the arming of the cooldown (l.185) and the person-cooldown test
\* of _detect_persons_yolo (l.190)
ProcessFrameML(r, c) ==
    IF ~ENABLE_PERSON_DETECTION THEN InnerLoop(r)
    ELSE IF r.frame_counter + 1 > frames_to_skip
         THEN LET r1 == [r EXCEPT !.frame_counter = 0] IN
              IF c[1] >= r1.yolo_trigger_cooldown_end
              THEN LET r2 == [r1 EXCEPT !.motion_last_frame = r.frame] IN
                   IF DetectSimpleMotion(r1.motion_last_frame, r.frame)
                   THEN DetectPersonsYolo(
                           [r2 EXCEPT !.yolo_trigger_cooldown_end =
                                          c[2] + YOLO_TRIGGER_COOLDOWN,
                                      !.triggers = Append(@, [frame |-> r.frames,
                                                              tested |-> c[1],
                                                              at |-> c[2]])],
                           c[3])
                   ELSE InnerLoop(r2)
              ELSE InnerLoop(r1)
         ELSE InnerLoop([r EXCEPT !.frame_counter = @ + 1])

\* ProcessFrame that leaves the throttle timestamp as it is when it publishes
ProcessFrame_KeepsThrottleTime(r, img, timestamp, current_time, c) ==
    LET r1 == [r EXCEPT !.buffer = put(@, <<img, timestamp>>, BufferCapacity),
                        !.frames = @ + 1, !.frame = img,
                        !.current_time = current_time] IN
    IF current_time - r1.last_event_pub_time > EVENT_PUB_INTERVAL
    THEN [r1 EXCEPT !.stamp = timestamp, !.pc = "pub_frame"]
    ELSE ProcessFrameML(r1, c)

\* _process_frame up to its first await.  timestamp is the time.time() of the
\* call in _run (l.129): it goes into the buffer and into the event;
\* current_time is the time.time() of l.169: the throttle is tested against it
\* and set to it
ProcessFrame(r, img, timestamp, current_time, c) ==
    LET r1 == [r EXCEPT !.buffer = put(@, <<img, timestamp>>, BufferCapacity),
                        !.frames = @ + 1, !.frame = img,
                        !.current_time = current_time] IN
    IF current_time - r1.last_event_pub_time > EVENT_PUB_INTERVAL
    THEN [r1 EXCEPT !.last_event_pub_time = current_time, !.stamp = timestamp,
                    !.pc = "pub_frame"]
    ELSE ProcessFrameML(r1, c)

\* time.time() returning the same value at every call of one step
Instant == <<now, now, now>>

\* c is what successive time.time() calls from time t on may return
Successive(t, c) == t <= c[1] /\ c[1] <= c[2] /\ c[2] <= c[3]

\* the value of the last time.time() call the gate made in taking the worker
\* from r to q (t if it made none): no call for a frame the skip counter holds
\* back, the one of l.182 for a frame that triggers nothing, all three for a
\* trigger
LastClockRead(r, q, t, c) ==
    IF ~ENABLE_PERSON_DETECTION \/ q.frame_counter # 0 THEN t
    ELSE IF Len(q.triggers) = Len(r.triggers) THEN c[1] ELSE c[3]

\* the coroutine may take a step of its own: not finished, no cancellation pending
Runs(w, at) ==
    /\ workers[w].task = "pending"
    /\ ~workers[w].cancel
    /\ workers[w].pc = at

\* the event loop runs the task's next step (the model counts these steps)
Scheduled(maxIO) ==
    /\ io < maxIO
    /\ io' = io + 1

\* _handle_connect / _handle_disconnect before the publish
SetStatus(cid, s) ==
    /\ camera_store' = IF camera_store[cid] # NoCamera
                       THEN [camera_store EXCEPT ![cid].status = s]
                       ELSE camera_store
    /\ gauge' = [gauge EXCEPT ![cid] = IF s = "connected" THEN 1 ELSE 0]

\* TaskCancelled with the CancelledError caught by the loop's except branch
\* (`except BaseException`): the loop goes on to its 5s pause
TaskCancelled_Swallowed(w) ==
    /\ workers[w].task = "pending"
    /\ workers[w].cancel
    /\ workers' = [workers EXCEPT ![w] = [Raised(@) EXCEPT !.cancel = FALSE]]
    /\ UNCHANGED <<camera_store, worker_store, task_store, calls, gauge, now, io, sink, ring>>

\* task.cancel() delivered: CancelledError is raised at the await the task is
\* suspended at; `except Exception` does not catch it and the task ends
TaskCancelled(w) ==
    /\ workers[w].task = "pending"
    /\ workers[w].cancel
    /\ workers' = [workers EXCEPT ![w].task = "done"]
    /\ UNCHANGED <<camera_store, worker_store, task_store, calls, gauge, now, io, sink, ring>>

\* first step of the task
TaskBegin(w, maxIO) ==
    /\ Runs(w, "start")
    /\ Scheduled(maxIO)
    /\ workers' = [workers EXCEPT ![w] = OuterLoop(@)]
    /\ UNCHANGED <<camera_store, worker_store, task_store, calls, gauge, now, sink, ring>>

\* cv2.VideoCapture(url) returns in its thread, the capture opened (`ok`) or
\* not; the task may have been cancelled or have ended meanwhile
OpenThreadDone(w, ok, maxOpens) ==
    /\ workers[w].pc = "open"
    /\ workers[w].thread = "running"
    /\ workers[w].opened < maxOpens
    /\ workers' = [workers EXCEPT ![w].thread = IF ok THEN "ok" ELSE "failed",
                                  ![w].opened = @ + 1,
                                  ![w].unreleased = IF ok THEN @ + 1 ELSE @]
    /\ UNCHANGED <<camera_store, worker_store, task_store, calls, gauge, now, io, sink, ring>>

\* the task resumes with the capture: `cap = await asyncio.to_thread(...)`,
\* cap.isOpened(), then _handle_connect / _handle_disconnect up to the publish
OpenResult(w, maxIO) ==
    /\ Runs(w, "open")
    /\ workers[w].thread \in {"ok", "failed"}
    /\ Scheduled(maxIO)
    /\ workers' = [workers EXCEPT ![w] =
            IF @.thread = "ok"
            THEN [@ EXCEPT !.cap = "open", !.fails = 0, !.stamp = now,
                           !.thread = "none", !.pc = "pub_connected"]
            ELSE [@ EXCEPT !.cap = "failed", !.fails = @ + 1, !.stamp = now,
                           !.thread = "none", !.pc = "pub_open_failed"]]
    /\ SetStatus(workers[w].cam,
                 IF workers[w].thread = "ok" THEN "connected" ELSE "disconnected")
    /\ UNCHANGED <<worker_store, task_store, calls, now, sink, ring>>

\* the publish of camera.disconnected after a failed open returned or raised
PublishOpenFailed(w, ok, maxIO) ==
    /\ Runs(w, "pub_open_failed")
    /\ Scheduled(maxIO)
    /\ workers' = [workers EXCEPT ![w] =
            IF ok THEN [Published(@, "camera.disconnected") EXCEPT !.pc = "backoff"]
            ELSE Raised(@)]
    /\ Sent(workers[w].cam, "camera.disconnected", ok)
    /\ UNCHANGED <<camera_store, worker_store, task_store, calls, gauge, now, ring>>

\* asyncio.sleep(self.reconnect_delay) elapsed
BackoffElapsed(w, maxIO) ==
    /\ Runs(w, "backoff")
    /\ Scheduled(maxIO)
    /\ workers' = [workers EXCEPT ![w] =
            OuterLoop([@ EXCEPT !.reconnect_delay = Min(MaxReconnectDelay, @ * 2)])]
    /\ UNCHANGED <<camera_store, worker_store, task_store, calls, gauge, now, sink, ring>>

\* the publish of camera.connected returned or raised
PublishConnected(w, ok, maxIO) ==
    /\ Runs(w, "pub_connected")
    /\ Scheduled(maxIO)
    /\ workers' = [workers EXCEPT ![w] =
            IF ok THEN InnerLoop([Published(@, "camera.connected") EXCEPT
                                     !.reconnect_delay = InitialReconnectDelay])
            ELSE Raised(@)]
    /\ Sent(workers[w].cam, "camera.connected", ok)
    /\ UNCHANGED <<camera_store, worker_store, task_store, calls, gauge, now, ring>>

\* cap.read() returned a frame: _process_frame(frame, time.time()) runs up to
\* its first await.  The first time.time() (l.129) returns now, the later ones
\* current_time (l.169) and c; the clock stands at the last value read
ReadFrame(w, img, current_time, c, maxFrames, maxIO) ==
    /\ Runs(w, "read")
    /\ Scheduled(maxIO)
    /\ workers[w].frames < maxFrames
    /\ now <= current_time
    /\ Successive(current_time, c)
    /\ workers' = [workers EXCEPT ![w] = ProcessFrame(@, img, now, current_time, c)]
    /\ now' = IF workers'[w].pc = "pub_frame" THEN current_time
              ELSE LastClockRead(workers[w], workers'[w], current_time, c)
    /\ UNCHANGED <<camera_store, worker_store, task_store, calls, gauge, sink, ring>>

\* cap.read() returned ret = False
ReadFailed(w, maxIO) ==
    /\ Runs(w, "read")
    /\ Scheduled(maxIO)
    /\ workers' = [workers EXCEPT ![w].pc = "pub_read_failed", ![w].stamp = now]
    /\ SetStatus(workers[w].cam, "disconnected")
    /\ UNCHANGED <<worker_store, task_store, calls, now, sink, ring>>

\* the publish of camera.disconnected after a failed read returned or raised
PublishReadFailed(w, ok, maxIO) ==
    /\ Runs(w, "pub_read_failed")
    /\ Scheduled(maxIO)
    /\ workers' = [workers EXCEPT ![w] =
            IF ok THEN [Published(@, "camera.disconnected") EXCEPT !.pc = "release",
                                                                    !.thread = "running"]
            ELSE Raised(@)]
    /\ Sent(workers[w].cam, "camera.disconnected", ok)
    /\ UNCHANGED <<camera_store, worker_store, task_store, calls, gauge, now, ring>>

\* the throttled per-frame publish returned or raised; when it returned the
\* gate runs, its time.time() calls returning c
PublishFrame(w, ok, c, maxIO) ==
    /\ Runs(w, "pub_frame")
    /\ Scheduled(maxIO)
    /\ Successive(now, c)
    /\ workers' = [workers EXCEPT ![w] =
            IF ok THEN ProcessFrameML(Published(@, "frame.received"), c)
            ELSE Raised(@)]
    /\ now' = IF ok THEN LastClockRead(workers[w], workers'[w], now, c) ELSE now
    /\ Sent(workers[w].cam, "frame.received", ok)
    /\ UNCHANGED <<camera_store, worker_store, task_store, calls, gauge, ring>>

\* self.net.forward returned (persons: whether NMS kept a box) or raised
InferResult(w, outcome, maxIO) ==
    /\ Runs(w, "infer")
    /\ Scheduled(maxIO)
    /\ workers' = [workers EXCEPT ![w] =
            CASE outcome = "none" -> InnerLoop(@)
              [] outcome = "person" ->
                    [@ EXCEPT !.person_cooldown_end = now + PERSON_COOLDOWN_SECONDS,
                              !.detections = Append(@, [frame |-> workers[w].frames,
                                                        at |-> now]),
                              !.pc = "imwrite"]
              [] OTHER -> Raised(@)]
    /\ UNCHANGED <<camera_store, worker_store, task_store, calls, gauge, now, sink, ring>>

\* cv2.imwrite of the annotated frame returned
ImwriteDone(w, maxIO) ==
    /\ Runs(w, "imwrite")
    /\ Scheduled(maxIO)
    /\ workers' = [workers EXCEPT ![w].pc = "pub_person", ![w].stamp = now]
    /\ UNCHANGED <<camera_store, worker_store, task_store, calls, gauge, now, sink, ring>>

\* the publish of person.detected returned or raised
PublishPerson(w, ok, maxIO) ==
    /\ Runs(w, "pub_person")
    /\ Scheduled(maxIO)
    /\ workers' = [workers EXCEPT ![w] =
            IF ok THEN InnerLoop(Published(@, "person.detected"))
            ELSE Raised(@)]
    /\ Sent(workers[w].cam, "person.detected", ok)
    /\ UNCHANGED <<camera_store, worker_store, task_store, calls, gauge, now, ring>>

\* cap.release() returns in its thread: the handle is released; the task may
\* have been cancelled or have ended meanwhile
ReleaseThreadDone(w) ==
    /\ workers[w].pc = "release"
    /\ workers[w].thread = "running"
    /\ workers' = [workers EXCEPT ![w].thread = "returned", ![w].cap = "released",
                                  ![w].unreleased = @ - 1]
    /\ UNCHANGED <<camera_store, worker_store, task_store, calls, gauge, now, io, sink, ring>>

\* the task resumes after `await asyncio.to_thread(cap.release)`
ReleaseDone(w, maxIO) ==
    /\ Runs(w, "release")
    /\ workers[w].thread = "returned"
    /\ Scheduled(maxIO)
    /\ workers' = [workers EXCEPT ![w] = OuterLoop(@)]
    /\ UNCHANGED <<camera_store, worker_store, task_store, calls, gauge, now, sink, ring>>

\* asyncio.sleep(5) of the except branch elapsed
ErrorPauseElapsed(w, maxIO) ==
    /\ Runs(w, "errpause")
    /\ Scheduled(maxIO)
    /\ workers' = [workers EXCEPT ![w] = OuterLoop(@)]
    /\ UNCHANGED <<camera_store, worker_store, task_store, calls, gauge, now, sink, ring>>

\* --------------------------------------------- registry calls (coroutines)
\* The registries and objects a call reads and writes, as one value.
Reg == [cs |-> camera_store, ws |-> worker_store, ts |-> task_store,
        wk |-> workers, g |-> gauge]

\* How a piece of a coroutine ends: it returned `v`, raised `e`, is suspended
\* in `await task` of worker `self`'s stop() on the task of worker `t`, or
\* needs a CameraWorker object beyond the model's bound.
Returned(st, v) ==
    [st |-> st, state |-> "returned", at |-> "done", self |-> NoWorker, task |-> NoWorker, ret |-> v]
RaisedError(st, e) ==
    [st |-> st, state |-> "raised", at |-> "done", self |-> NoWorker, task |-> NoWorker, ret |-> e]
Awaiting(st, at, w, t) ==
    [st |-> st, state |-> "awaiting", at |-> at, self |-> w, task |-> t, ret |-> "none"]
OutOfObjects(st) ==
    [st |-> st, state |-> "blocked", at |-> "done", self |-> NoWorker, task |-> NoWorker, ret |-> "none"]

Constructed(st) == {w \in Workers : st.wk[w].cam # NoCam}

\* CameraWorker.start
start(st, w) ==
    IF st.wk[w].is_running THEN st
    ELSE [st EXCEPT !.wk[w].stop_event = FALSE,
                    !.wk[w].task = "pending", !.wk[w].pc = "start",
                    !.wk[w].cancel = FALSE,
                    !.ts[st.wk[w].cam] = w,
                    !.wk[w].is_running = TRUE]

\* stop() that cancels the task and does not await it
stop_NoAwait(st, w) ==
    LET cid == st.wk[w].cam
        s0 == [st EXCEPT !.wk[w].stop_called = TRUE] IN
    IF ~s0.wk[w].is_running \/ s0.ts[cid] = NoWorker
    THEN [st |-> [s0 EXCEPT !.wk[w].stop_returned = TRUE], wait |-> NoWorker]
    ELSE LET t == s0.ts[cid]
             s1 == [s0 EXCEPT !.wk[w].stop_event = TRUE, !.ts[cid] = NoWorker,
                              !.wk[w].is_running = FALSE, !.wk[w].stop_returned = TRUE] IN
         [st |-> [s1 EXCEPT !.wk[t].cancel = (s1.wk[t].task # "done")], wait |-> NoWorker]

\* stop() whose guard tests only `self.camera_id not in task_store`
stop_NoRunningGuard(st, w) ==
    LET cid == st.wk[w].cam
        s0 == [st EXCEPT !.wk[w].stop_called = TRUE] IN
    IF s0.ts[cid] = NoWorker
    THEN [st |-> [s0 EXCEPT !.wk[w].stop_returned = TRUE], wait |-> NoWorker]
    ELSE LET t == s0.ts[cid]
             s1 == [s0 EXCEPT !.wk[w].stop_event = TRUE, !.ts[cid] = NoWorker] IN
         IF s1.wk[t].task # "done"
         THEN [st |-> [s1 EXCEPT !.wk[t].cancel = TRUE], wait |-> t]
         ELSE [st |-> [s1 EXCEPT !.wk[w].is_running = FALSE,
                                 !.wk[w].stop_returned = TRUE], wait |-> NoWorker]

\* CameraWorker.stop up to `await task`: wait = the task awaited, or NoWorker
\* when stop() ran to its end without suspending
stop(st, w) ==
    LET cid == st.wk[w].cam
        s0 == [st EXCEPT !.wk[w].stop_called = TRUE] IN
    IF ~s0.wk[w].is_running \/ s0.ts[cid] = NoWorker
    THEN [st |-> [s0 EXCEPT !.wk[w].stop_returned = TRUE], wait |-> NoWorker]
    ELSE LET t == s0.ts[cid]
             s1 == [s0 EXCEPT !.wk[w].stop_event = TRUE, !.ts[cid] = NoWorker] IN
         IF s1.wk[t].task # "done"
         THEN [st |-> [s1 EXCEPT !.wk[t].cancel = TRUE], wait |-> t]
         ELSE [st |-> [s1 EXCEPT !.wk[w].is_running = FALSE,
                                 !.wk[w].stop_returned = TRUE], wait |-> NoWorker]

\* CameraWorker.stop after `await task`
stop_resume(st, w) ==
    [st EXCEPT !.wk[w].is_running = FALSE, !.wk[w].stop_returned = TRUE]

\* stop_worker up to the await inside stop(), `at` naming the caller's await
stop_worker(st, cid, at) ==
    IF st.ws[cid] = NoWorker THEN Returned(st, "None")
    ELSE LET w == st.ws[cid]
             r == stop(st, w) IN
         IF r.wait # NoWorker THEN Awaiting(r.st, at, w, r.wait)
         ELSE Returned([r.st EXCEPT !.ws[cid] = NoWorker], "None")

\* stop_worker after stop() resumed: `del worker_store[camera_id]`
stop_worker_resume(st, cid, w) ==
    LET s1 == stop_resume(st, w) IN
    IF s1.ws[cid] = NoWorker THEN RaisedError(s1, "KeyError")
    ELSE Returned([s1 EXCEPT !.ws[cid] = NoWorker], "None")

\* start_worker after its `await stop_worker(camera_id)`
start_worker_tail(st, cid, type, url) ==
    IF (type \in PullTypes /\ url) \/ type = "http_push"
    THEN IF Constructed(st) = Workers THEN OutOfObjects(st)
         ELSE LET w == CHOOSE x \in Workers \ Constructed(st) :
                          \A y \in Workers \ Constructed(st) : x <= y IN
              IF type \in PullTypes
              THEN Returned(start([st EXCEPT !.wk[w] = [NewWorker(cid) EXCEPT !.source_type = type],
                                             !.ws[cid] = w], w), "None")
              ELSE Returned([st EXCEPT !.wk[w] = [NewWorker(cid) EXCEPT
                                                     !.source_type = "http_push",
                                                     !.is_running = TRUE],
                                       !.ws[cid] = w,
                                       !.g[cid] = 1], "None")
    ELSE Returned(st, "None")

\* start_worker
start_worker(st, cid, type, url, at) ==
    LET r == IF st.ws[cid] # NoWorker THEN stop_worker(st, cid, at) ELSE Returned(st, "None") IN
    IF r.state = "returned" THEN start_worker_tail(r.st, cid, type, url) ELSE r

\* register_camera from its call of start_worker on: `return camera_store[camera.id]`
register_return(r, cid) ==
    IF r.state # "returned" THEN r
    ELSE IF r.st.cs[cid] = NoCamera THEN RaisedError(r.st, "KeyError")
    ELSE Returned(r.st, "camera")

\* register_camera after `await stop_worker(camera.id)`
register_tail(st, cid, camera) ==
    LET s1 == [st EXCEPT !.cs[cid] = camera] IN
    IF camera.source_type \in PullTypes /\ camera.source_url
    THEN register_return(
            start_worker(s1, cid, camera.source_type, camera.source_url, "register_start"), cid)
    ELSE IF camera.source_type = "http_push"
    THEN register_return(start_worker(s1, cid, camera.source_type, FALSE, "register_start"), cid)
    ELSE register_return(Returned(s1, "None"), cid)

\* register_camera
register_camera(st, cid, camera) ==
    LET r == IF st.cs[cid] # NoCamera THEN stop_worker(st, cid, "register_stop")
             ELSE Returned(st, "None") IN
    IF r.state = "returned" THEN register_tail(r.st, cid, camera) ELSE r

\* unregister_camera that reports success and leaves the camera in camera_store
unregister_tail_KeepsCamera(st, cid) ==
    Returned([st EXCEPT !.g[cid] = 0], "True")

\* unregister_camera after `await stop_worker(camera_id)`
unregister_tail(st, cid) ==
    LET s1 == [st EXCEPT !.g[cid] = 0] IN
    IF s1.cs[cid] # NoCamera THEN Returned([s1 EXCEPT !.cs[cid] = NoCamera], "True")
    ELSE Returned(s1, "False")

\* unregister_camera
unregister_camera(st, cid) ==
    LET r == stop_worker(st, cid, "unregister") IN
    IF r.state = "returned" THEN unregister_tail(r.st, cid) ELSE r

\* a suspended call goes on after the task it awaits has finished
resume(st, k) ==
    IF k.at = "stop" THEN Returned(stop_resume(st, k.self), "None")
    ELSE LET r == stop_worker_resume(st, k.cam, k.self) IN
         IF r.state # "returned" THEN r
         ELSE CASE k.at = "stop_worker" -> r
                [] k.at = "start_worker" ->
                      start_worker_tail(r.st, k.cam, k.camera.source_type, k.camera.source_url)
                [] k.at = "register_stop" -> register_tail(r.st, k.cam, k.camera)
                [] k.at = "register_start" ->
                      register_return(
                          start_worker_tail(r.st, k.cam, k.camera.source_type,
                                            k.camera.source_type \in PullTypes), k.cam)
                [] OTHER -> unregister_tail(r.st, k.cam)

\* A call slot.  target, was_running: the object a direct stop() is called on
\* and its is_running flag at the call.
\* frame, timestamp: the image and the timestamp form field of a push request.
\* worker: the local `worker` of http_push_ingest, looked up before its await.
NoCall == [kind |-> "none", cam |-> NoCam, camera |-> NoCamera, state |-> "unused",
           at |-> "done", self |-> NoWorker, task |-> NoWorker, ret |-> "none",
           target |-> NoWorker, was_running |-> FALSE,
           frame |-> NoFrame, timestamp |-> NoFrame, worker |-> NoWorker]

\* the registries and the call's coroutine after a piece of it has run
Commit(c, k, r) ==
    /\ r.state # "blocked"
    /\ camera_store' = r.st.cs
    /\ worker_store' = r.st.ws
    /\ task_store' = r.st.ts
    /\ workers' = r.st.wk
    /\ gauge' = r.st.g
    /\ calls' = [calls EXCEPT ![c] = [k EXCEPT !.state = r.state, !.at = r.at,
                                               !.self = r.self, !.task = r.task,
                                               !.ret = r.ret]]
    /\ UNCHANGED <<now, io, sink, ring>>

\* the next call slot; calls are numbered in the order they are made
FreeCall(c) ==
    /\ c \in CallIds
    /\ calls[c].state = "unused"
    /\ \A d \in CallIds : d < c => calls[d].state # "unused"

NewCall(kind, cid, camera) == [NoCall EXCEPT !.kind = kind, !.cam = cid, !.camera = camera]

CallRegister(c, cid, camera) ==
    /\ FreeCall(c)
    /\ Commit(c, NewCall("register_camera", cid, camera), register_camera(Reg, cid, camera))

CallUnregister(c, cid) ==
    /\ FreeCall(c)
    /\ Commit(c, NewCall("unregister_camera", cid, NoCamera), unregister_camera(Reg, cid))

CallStartWorker(c, cid, camera) ==
    /\ FreeCall(c)
    /\ Commit(c, NewCall("start_worker", cid, camera),
              start_worker(Reg, cid, camera.source_type, camera.source_url, "start_worker"))

CallStopWorker(c, cid) ==
    /\ FreeCall(c)
    /\ Commit(c, NewCall("stop_worker", cid, NoCamera), stop_worker(Reg, cid, "stop_worker"))

\* worker.stop() called on a worker object obtained from get_worker()
CallStop(c, w) ==
    /\ FreeCall(c)
    /\ workers[w].cam # NoCam
    /\ LET r == stop(Reg, w) IN
       Commit(c, [NewCall("stop", workers[w].cam, NoCamera) EXCEPT
                     !.target = w, !.was_running = workers[w].is_running],
              IF r.wait # NoWorker THEN Awaiting(r.st, "stop", w, r.wait)
              ELSE Returned(r.st, "None"))

\* cv2.imencode('.jpg', frame) and jpeg.tobytes(): the encoded image
Jpeg(img) == IF img = 0 THEN "jpeg_0" ELSE "jpeg_1"

\* CameraWorker.get_latest_frame_jpeg.  A buffer item is the pair
\* <<frame, timestamp>> the read loop puts or the bare frame <<frame>> the push
\* handler puts; `frame, _ = latest_item` on a bare frame unpacks the rows of
\* the image and raises ValueError (the image has more than two rows).
get_latest_frame_jpeg(buf) ==
    IF buf = <<>> THEN "None"
    ELSE LET latest_item == buf[Len(buf)] IN
         IF Len(latest_item) # 2 THEN "ValueError" ELSE Jpeg(latest_item[1])

\* GET /cameras/{camera_id}/frame/latest: the response
get_latest_frame(st, cid) ==
    IF st.ws[cid] = NoWorker THEN Returned(st, "404")
    ELSE LET jpeg_bytes == get_latest_frame_jpeg(st.wk[st.ws[cid]].buffer) IN
         IF jpeg_bytes = "None" THEN Returned(st, "404")
         ELSE IF jpeg_bytes = "ValueError" THEN Returned(st, "500")
         ELSE Returned(st, jpeg_bytes)

\* POST /ingest/push/{camera_id} up to `await frame_file.read()`: the camera
\* and the worker are looked up (the worker is kept in the call's `worker`)
http_push_ingest(st, cid) ==
    IF st.cs[cid] = NoCamera THEN Returned(st, "404")
    ELSE IF st.cs[cid].source_type # "http_push" THEN Returned(st, "400")
    ELSE Awaiting(st, "push_read", NoWorker, NoWorker)

\* http_push_ingest after `await frame_file.read()`: the response.  w is the
\* worker looked up before the await, in worker_store or not by now.
\* img = NoFrame is a payload cv2.imdecode cannot decode; a missing worker
\* raises AttributeError; both end in the 500 of `except Exception`.
\* redis_publisher.publish(...) is called without await: the coroutine object
\* is dropped and nothing reaches the sink.
http_push_ingest_resume(st, w, img) ==
    IF img = NoFrame \/ w = NoWorker THEN Returned(st, "500")
    ELSE Returned([st EXCEPT !.wk[w].buffer = put(@, <<img>>, BufferCapacity)], "200")

\* a push request arrives.  frame_file.read() suspends the request (the upload
\* is read in a thread) or returns without suspending (the upload is in memory)
CallPushIngest(c, cid, img, t, suspends) ==
    /\ FreeCall(c)
    /\ Commit(c, [NewCall("http_push_ingest", cid, NoCamera) EXCEPT
                     !.frame = img, !.timestamp = t, !.worker = worker_store[cid]],
              IF http_push_ingest(Reg, cid).state = "awaiting" /\ ~suspends
              THEN http_push_ingest_resume(Reg, worker_store[cid], img)
              ELSE http_push_ingest(Reg, cid))

\* `await frame_file.read()` of a suspended push request returns
PushReadDone(c) ==
    /\ calls[c].state = "awaiting"
    /\ calls[c].at = "push_read"
    /\ Commit(c, calls[c], http_push_ingest_resume(Reg, calls[c].worker, calls[c].frame))

CallGetLatestFrame(c, cid) ==
    /\ FreeCall(c)
    /\ Commit(c, NewCall("get_latest_frame", cid, NoCamera), get_latest_frame(Reg, cid))

\* `await task` returns (the CancelledError of the cancelled task is swallowed)
Resume(c) ==
    /\ calls[c].state = "awaiting"
    /\ calls[c].at # "push_read"
    /\ workers[calls[c].task].task = "done"
    /\ Commit(c, calls[c], resume(Reg, calls[c]))

\* ------------------------------------------------------- specifications
Init ==
    /\ camera_store = [c \in CamIds |-> NoCamera]
    /\ worker_store = [c \in CamIds |-> NoWorker]
    /\ task_store = [c \in CamIds |-> NoWorker]
    /\ workers = [w \in Workers |-> NoObject]
    /\ calls = [c \in CallIds |-> NoCall]
    /\ gauge = [c \in CamIds |-> -1]
    /\ now = 10
    /\ io = 0
    /\ sink = <<>>
    /\ ring = NoRing

\* the cameras registered and the workers started in the checked behaviours
PullCamera == RegisteredCamera("rtsp", TRUE)
PushCamera == RegisteredCamera("http_push", FALSE)
NoUrlCamera == RegisteredCamera("mjpeg", FALSE)   \* a pull source without source_url

\* the connection phase of a read loop: the task's first step, opens, the
\* publishes of camera.connected / camera.disconnected, the sleeps
ConnectIO(w, maxOpens, maxIO) ==
    \/ TaskBegin(w, maxIO)
    \/ \E ok \in BOOLEAN : OpenThreadDone(w, ok, maxOpens)
    \/ OpenResult(w, maxIO)
    \/ \E ok \in BOOLEAN : PublishOpenFailed(w, ok, maxIO)
    \/ BackoffElapsed(w, maxIO)
    \/ \E ok \in BOOLEAN : PublishConnected(w, ok, maxIO)
    \/ ErrorPauseElapsed(w, maxIO)

\* the streaming phase: reads, frame processing, release
StreamIO(w, maxFrames, maxIO) ==
    \/ \E img \in Images : ReadFrame(w, img, now, Instant, maxFrames, maxIO)
    \/ ReadFailed(w, maxIO)
    \/ \E ok \in BOOLEAN : PublishReadFailed(w, ok, maxIO)
    \/ \E ok \in BOOLEAN : PublishFrame(w, ok, Instant, maxIO)
    \/ \E o \in {"none", "person", "raise"} : InferResult(w, o, maxIO)
    \/ ImwriteDone(w, maxIO)
    \/ \E ok \in BOOLEAN : PublishPerson(w, ok, maxIO)
    \/ ReleaseThreadDone(w)
    \/ ReleaseDone(w, maxIO)

RegistryCall(c) ==
    \/ \E cid \in CamIds, cam \in {PullCamera, PushCamera} : CallRegister(c, cid, cam)
    \/ \E cid \in CamIds : CallUnregister(c, cid)
    \/ \E cid \in CamIds, cam \in {PullCamera, PushCamera} : CallStartWorker(c, cid, cam)
    \/ \E cid \in CamIds : CallStopWorker(c, cid)

\* Spec: registry calls, interleaved at their awaits with the read-loop tasks.
\* The tasks take at most MaxIO steps of their own in all, and a source that
\* was opened delivers nothing (the read stays blocked).
Next ==
    \/ \E c \in 1..MaxCalls : RegistryCall(c)
    \/ \E c \in CallIds : Resume(c)
    \/ \E w \in Workers : TaskCancelled(w)
    \/ \E w \in Workers : ConnectIO(w, MaxOpens, MaxIO)

Spec == Init /\ [][Next]_vars

\* SpecFair: the event loop runs a task whose cancellation was requested and
\* resumes a coroutine whose awaited task has finished.  No fairness on I/O
\* completions or timers: a sleep need not ever elapse, a read need not return.
Fairness ==
    /\ \A w \in Workers : WF_vars(TaskCancelled(w))
    /\ \A c \in CallIds : WF_vars(Resume(c))

SpecFair == Spec /\ Fairness

\* SpecDirect: Spec plus CameraWorker.stop() called directly on a worker object
NextDirect ==
    \/ Next
    \/ \E c \in 1..MaxCalls, w \in Workers : CallStop(c, w)

SpecDirect == Init /\ [][NextDirect]_vars

\* SpecSeq: start_worker / stop_worker on a pull camera, one call at a time
NoCallInFlight == \A c \in CallIds : calls[c].state # "awaiting"

NextSeq ==
    \/ \E c \in 1..MaxCalls, cid \in CamIds :
          NoCallInFlight /\ CallStartWorker(c, cid, PullCamera)
    \/ \E c \in 1..MaxCalls, cid \in CamIds : NoCallInFlight /\ CallStopWorker(c, cid)
    \/ \E c \in CallIds : Resume(c)
    \/ \E w \in Workers : TaskCancelled(w)
    \/ \E w \in Workers : ConnectIO(w, MaxOpens, MaxIO)

SpecSeq == Init /\ [][NextSeq]_vars

\* SpecRegister: register_camera / unregister_camera calls only, one more of
\* them than Spec issues
NextRegister ==
    \/ \E c \in CallIds, cid \in CamIds, cam \in {PullCamera, PushCamera} :
          CallRegister(c, cid, cam)
    \/ \E c \in CallIds, cid \in CamIds : CallUnregister(c, cid)
    \/ \E c \in CallIds : Resume(c)
    \/ \E w \in Workers : TaskCancelled(w)
    \/ \E w \in Workers : ConnectIO(w, MaxOpens, MaxIO)

SpecRegister == Init /\ [][NextRegister]_vars

\* SpecWorker: one pull camera is registered (call 1) and may be stopped
\* (call 2); its worker connects, streams and processes frames.
NextWorker ==
    \/ \E cid \in CamIds : CallRegister(1, cid, PullCamera)
    \/ \E cid \in CamIds : CallStopWorker(2, cid)
    \/ \E c \in CallIds : Resume(c)
    \/ \E w \in Workers : TaskCancelled(w)
    \/ \E w \in Workers : ConnectIO(w, MaxOpens, MaxIOWorker)
    \/ \E w \in Workers : StreamIO(w, MaxFramesWorker, MaxIOWorker)

SpecWorker == Init /\ [][NextWorker]_vars

SpecWorkerFair == SpecWorker /\ Fairness

\* SpecSeqRegister: register_camera / unregister_camera calls one at a time,
\* for pull and push cameras and for a pull camera that has no source_url
NextSeqRegister ==
    \/ \E c \in 1..MaxCalls, cid \in CamIds, cam \in {PullCamera, PushCamera, NoUrlCamera} :
          NoCallInFlight /\ CallRegister(c, cid, cam)
    \/ \E c \in 1..MaxCalls, cid \in CamIds : NoCallInFlight /\ CallUnregister(c, cid)
    \/ \E c \in CallIds : Resume(c)
    \/ \E w \in Workers : TaskCancelled(w)
    \/ \E w \in Workers : ConnectIO(w, MaxOpens, MaxIO)

SpecSeqRegister == Init /\ [][NextSeqRegister]_vars

\* SpecRace: concurrent register_camera calls for a pull camera whose workers
\* connect and read a frame
NextRace ==
    \/ \E c \in 1..MaxCalls, cid \in CamIds : CallRegister(c, cid, PullCamera)
    \/ \E c \in CallIds : Resume(c)
    \/ \E w \in Workers : TaskCancelled(w)
    \/ \E w \in Workers : ConnectIO(w, MaxOpens, MaxIORace)
    \/ \E w \in Workers, img \in Images :
          ReadFrame(w, img, now, Instant, MaxFramesRace, MaxIORace)
    \/ \E w \in Workers, ok \in BOOLEAN : PublishFrame(w, ok, Instant, MaxIORace)

SpecRace == Init /\ [][NextRace]_vars

\* SpecBackoff: one pull camera is registered once and may be stopped; its
\* worker goes through up to MaxOpensBackoff open attempts (a source that was
\* opened delivers nothing)
NextBackoff ==
    \/ \E cid \in CamIds : CallRegister(1, cid, PullCamera)
    \/ \E cid \in CamIds : CallStopWorker(2, cid)
    \/ \E c \in CallIds : Resume(c)
    \/ \E w \in Workers : TaskCancelled(w)
    \/ \E w \in Workers : ConnectIO(w, MaxOpensBackoff, MaxIOBackoff)

SpecBackoff == Init /\ [][NextBackoff]_vars

\* SpecPush: frames are pushed to the ingestion endpoint and the latest frame is
\* read on demand, while register_camera and unregister_camera are called and
\* awaited as functions of the registry.  (The endpoints register_new_camera and
\* unregister_existing_camera call them without await and change no registry;
\* they are not steps of SpecPush.)
NextPush ==
    \/ \E c \in 1..MaxCalls, cid \in CamIds, cam \in {PullCamera, PushCamera} :
          CallRegister(c, cid, cam)
    \/ \E c \in 1..MaxCalls, cid \in CamIds : CallUnregister(c, cid)
    \/ \E c \in CallIds : PushReadDone(c)
    \/ \E c \in 1..MaxCalls, cid \in CamIds, img \in Images \cup {NoFrame}, t \in {now - 1, now},
          suspends \in BOOLEAN :
          CallPushIngest(c, cid, img, t, suspends)
    \/ \E c \in 1..MaxCalls, cid \in CamIds : CallGetLatestFrame(c, cid)
    \/ \E c \in CallIds : Resume(c)
    \/ \E w \in Workers : TaskCancelled(w)
    \/ \E w \in Workers : ConnectIO(w, MaxOpens, MaxIO)

SpecPush == Init /\ [][NextPush]_vars

\* cap.read() returns the next frame of a still scene that changes once: the
\* first IdenticalFrames frames show one image, the next frame another
StillThenChanged(w, img) ==
    \/ workers[w].frames = 0
    \/ workers[w].frames < IdenticalFrames /\ img = workers[w].frame
    \/ workers[w].frames = IdenticalFrames /\ img # workers[w].frame

\* cap.read() returned the next frame of that scene
ReadScenarioFrame(w, img) ==
    /\ StillThenChanged(w, img)
    /\ ReadFrame(w, img, now, Instant, IdenticalFrames + 1, MaxIOScenario)

\* SpecScenario: one pull camera is registered and may be stopped; its source
\* opens, the event sink accepts every event, and the source delivers
\* IdenticalFrames identical frames followed by one changed frame
NextScenario ==
    \/ \E cid \in CamIds : CallRegister(1, cid, PullCamera)
    \/ \E cid \in CamIds : CallStopWorker(2, cid)
    \/ \E c \in CallIds : Resume(c)
    \/ \E w \in Workers : TaskCancelled(w)
    \/ \E w \in Workers : TaskBegin(w, MaxIOScenario)
    \/ \E w \in Workers : OpenThreadDone(w, TRUE, 1)
    \/ \E w \in Workers : OpenResult(w, MaxIOScenario)
    \/ \E w \in Workers : PublishConnected(w, TRUE, MaxIOScenario)
    \/ \E w \in Workers, img \in Images : ReadScenarioFrame(w, img)
    \/ \E w \in Workers : PublishFrame(w, TRUE, Instant, MaxIOScenario)

SpecScenario == Init /\ [][NextScenario]_vars

\* the values time.time() takes under SpecClock: the start, and the start plus
\* each of the intervals the frame pipeline compares against
ClockTimes ==
    {10 + d : d \in {0, EVENT_PUB_INTERVAL, YOLO_TRIGGER_COOLDOWN, PERSON_COOLDOWN_SECONDS}}

\* what three time.time() calls in a row may return
ClockReads == {c \in [1..3 -> ClockTimes] : Successive(c[1], c)}

\* time passes: time.time() returns t from now on
Tick(t) ==
    /\ t > now
    /\ now' = t
    /\ UNCHANGED <<camera_store, worker_store, task_store, workers, calls, gauge, io, sink, ring>>

\* cap.read() returns the next frame of a scene that changes only on the
\* frames the skip counter lets through (what the frames in between show
\* reaches the buffer and nothing else)
ChangesWhenSampled(w, img) ==
    \/ workers[w].frames = 0
    \/ workers[w].frame_counter = frames_to_skip
    \/ img = workers[w].frame

\* cap.read() returned the next frame of that scene, while the clock goes on
ReadSampledFrame(w) ==
    /\ workers[w].pc = "read"
    /\ \E img \in Images, current_time \in ClockTimes, c \in ClockReads :
          /\ ChangesWhenSampled(w, img)
          /\ ReadFrame(w, img, current_time, c, MaxFramesClock, MaxIOClock)

\* the throttled per-frame publish returned, while the clock goes on
PublishSampledFrame(w) ==
    /\ workers[w].pc = "pub_frame"
    /\ \E c \in ClockReads : PublishFrame(w, TRUE, c, MaxIOClock)

\* SpecClock: one pull camera is registered; its source opens and delivers
\* frames, the event sink accepts every event, inference finds a person or
\* not, and time passes between any two steps and between any two
\* time.time() calls of one step
NextClock ==
    \/ \E cid \in CamIds : CallRegister(1, cid, PullCamera)
    \/ \E w \in Workers : TaskBegin(w, MaxIOClock)
    \/ \E w \in Workers : OpenThreadDone(w, TRUE, 1)
    \/ \E w \in Workers : OpenResult(w, MaxIOClock)
    \/ \E w \in Workers : PublishConnected(w, TRUE, MaxIOClock)
    \/ \E w \in Workers : ReadSampledFrame(w)
    \/ \E w \in Workers : PublishSampledFrame(w)
    \/ \E w \in Workers, o \in {"none", "person"} : InferResult(w, o, MaxIOClock)
    \/ \E w \in Workers : ImwriteDone(w, MaxIOClock)
    \/ \E w \in Workers : PublishPerson(w, TRUE, MaxIOClock)
    \/ \E t \in ClockTimes : Tick(t)

SpecClock == Init /\ [][NextClock]_vars

\* cap.read() returns the next frame of a scene that changes exactly on the
\* frames the skip counter lets through
DiffersWhenSampled(w, img) ==
    \/ workers[w].frames = 0
    \/ workers[w].frame_counter = frames_to_skip /\ img # workers[w].frame
    \/ workers[w].frame_counter # frames_to_skip /\ img = workers[w].frame

\* the values time.time() takes under SpecRestart: the start, and the start
\* plus the inference-trigger cooldown
RestartTimes == {10 + d : d \in {0, YOLO_TRIGGER_COOLDOWN}}

\* what three time.time() calls in a row may return under SpecRestart
RestartReads == {c \in [1..3 -> RestartTimes] : Successive(c[1], c)}

\* cap.read() returned the next frame of that scene, while the clock goes on
ReadChangingFrame(w) ==
    /\ workers[w].pc = "read"
    /\ \E img \in Images, current_time \in RestartTimes, c \in RestartReads :
          /\ DiffersWhenSampled(w, img)
          /\ ReadFrame(w, img, current_time, c, MaxFramesRestart, MaxIORestart)

\* the throttled per-frame publish returned, while the clock goes on
PublishChangingFrame(w) ==
    /\ workers[w].pc = "pub_frame"
    /\ \E c \in RestartReads : PublishFrame(w, TRUE, c, MaxIORestart)

\* SpecRestart: one pull camera is registered and, at any later moment,
\* registered again (register_camera stops the worker and starts a new one);
\* the calls do not overlap.  The source opens and delivers frames, the event
\* sink accepts every event, inference finds nobody, and time passes between
\* any two steps and between any two time.time() calls of one step
NextRestart ==
    \/ \E c \in 1..2, cid \in CamIds : NoCallInFlight /\ CallRegister(c, cid, PullCamera)
    \/ \E c \in CallIds : Resume(c)
    \/ \E w \in Workers : TaskCancelled(w)
    \/ \E w \in Workers : TaskBegin(w, MaxIORestart)
    \/ \E w \in Workers : OpenThreadDone(w, TRUE, 1)
    \/ \E w \in Workers : OpenResult(w, MaxIORestart)
    \/ \E w \in Workers : PublishConnected(w, TRUE, MaxIORestart)
    \/ \E w \in Workers : ReadChangingFrame(w)
    \/ \E w \in Workers : PublishChangingFrame(w)
    \/ \E w \in Workers : InferResult(w, "none", MaxIORestart)
    \/ \E t \in RestartTimes : Tick(t)

SpecRestart == Init /\ [][NextRestart]_vars

\* `while self.is_running` of get_mjpeg_stream_generator: the generator of
\* worker w goes on
GeneratorLoops(w) == workers[w].is_running

\* SpecBuffer: a CircularBuffer of any capacity 1..MaxCapacity and put calls
\* with any items
InitBuffer ==
    /\ camera_store = [c \in CamIds |-> NoCamera]
    /\ worker_store = [c \in CamIds |-> NoWorker]
    /\ task_store = [c \in CamIds |-> NoWorker]
    /\ workers = [w \in Workers |-> NoObject]
    /\ calls = [c \in CallIds |-> NoCall]
    /\ gauge = [c \in CamIds |-> -1]
    /\ now = 10
    /\ io = 0
    /\ sink = <<>>
    /\ ring \in {[NoRing EXCEPT !.capacity = c] : c \in 1..MaxCapacity}

\* self._buffer.append(item); puts records the items put so far
BufferPut(item) ==
    /\ Len(ring.puts) < MaxPuts
    /\ ring' = [ring EXCEPT !.items = put(@, item, ring.capacity),
                            !.puts = Append(@, item)]
    /\ UNCHANGED <<camera_store, worker_store, task_store, workers, calls, gauge, now, io, sink>>

NextBuffer == \E item \in Images : BufferPut(item)

SpecBuffer == InitBuffer /\ [][NextBuffer]_vars

\* ------------------------------------------------------------- properties
\* read-loop tasks of a camera id that have not finished
LiveTasks(cid) == {w \in Workers : workers[w].cam = cid /\ workers[w].task = "pending"}

\* ... and whose cancellation has not been requested either
RunningTasks(cid) == {w \in LiveTasks(cid) : ~workers[w].cancel}

RunningWorkers(cid) == {w \in Workers : workers[w].cam = cid /\ workers[w].is_running}

StopInProgress(w) == \E c \in CallIds : calls[c].state = "awaiting" /\ calls[c].self = w

AllReturned == \A c \in CallIds : calls[c].state \in {"unused", "returned"}

LastCall == Cardinality({c \in CallIds : calls[c].state # "unused"})

\* the worker's fields, the bookkeeping of stop() calls left out
Fields(r) == [r EXCEPT !.stop_called = FALSE, !.stop_returned = FALSE]

\* C1: under any interleaving of start_worker, stop_worker, register_camera and
\* unregister_camera calls for one camera id, at most one read-loop task of that
\* id is running.  (A task whose cancellation is already requested is not
\* counted: the reading most favourable to the code.)
C1_AtMostOneLiveTask == \A cid \in CamIds : Cardinality(RunningTasks(cid)) <= 1

FullyRegistered(cid) ==
    /\ camera_store[cid] # NoCamera
    /\ worker_store[cid] # NoWorker
    /\ camera_store[cid].source_type \in PullTypes => task_store[cid] # NoWorker
FullyAbsent(cid) ==
    /\ camera_store[cid] = NoCamera
    /\ worker_store[cid] = NoWorker
    /\ task_store[cid] = NoWorker
    /\ RunningTasks(cid) = {}

\* C2: once concurrent register_camera / unregister_camera calls for one id have
\* all returned, the id is fully registered (camera, worker and, for a pull
\* source, task entry) or fully absent (no camera, worker or task entry and no
\* running task).
C2_RegisteredOrAbsent ==
    AllReturned => \A cid \in CamIds : FullyRegistered(cid) \/ FullyAbsent(cid)

\* C3: whenever a call of CameraWorker.stop() has returned, the worker's
\* read-loop task has finished and task_store holds no handle of it.
C3_StopReturnsAfterTaskEnd ==
    \A w \in Workers :
        workers[w].stop_returned =>
            /\ workers[w].task # "pending"
            /\ task_store[workers[w].cam] # w

\* C4: in a sequence of non-overlapping start_worker / stop_worker calls on a
\* pull camera no call raises; after a start_worker there is exactly one running
\* worker with one live task, after a stop_worker none, and the tasks of all
\* earlier workers have finished.
C4_SequentialStartStop ==
    /\ \A c \in CallIds : calls[c].state # "raised"
    /\ \A cid \in CamIds :
          (NoCallInFlight /\ LastCall > 0 /\ calls[LastCall].cam = cid) =>
              IF calls[LastCall].kind = "start_worker"
              THEN /\ worker_store[cid] # NoWorker
                   /\ RunningWorkers(cid) = {worker_store[cid]}
                   /\ LiveTasks(cid) = {worker_store[cid]}
                   /\ task_store[cid] = worker_store[cid]
              ELSE /\ RunningWorkers(cid) = {}
                   /\ LiveTasks(cid) = {}
                   /\ worker_store[cid] = NoWorker

\* a start_worker that returned after an earlier worker was stopped
C4_Witness ==
    \E c \in 2..MaxCalls :
        /\ LastCall = c
        /\ calls[c].kind = "start_worker" /\ calls[c].state = "returned"
        /\ calls[c - 1].state = "returned"
        /\ \E w \in Workers : workers[w].task = "done" /\ ~workers[w].is_running
        /\ \E w \in Workers : workers[w].task = "pending"

\* C5: stop() called on a worker that is already stopped (is_running false)
\* returns at once and changes no worker field and no registry, cancels no task
\* and emits no event.
C5_StopIdempotent ==
    [][\A c \in CallIds :
          (calls[c].state = "unused" /\ calls'[c].kind = "stop" /\ ~calls'[c].was_running) =>
              /\ calls'[c].state = "returned"
              /\ camera_store' = camera_store
              /\ worker_store' = worker_store
              /\ task_store' = task_store
              /\ gauge' = gauge
              /\ \A w \in Workers : Fields(workers'[w]) = Fields(workers[w])]_vars

\* stop() was called on, and returned for, a pull worker stopped before
C5_Witness ==
    \E c \in CallIds :
        /\ calls[c].kind = "stop" /\ calls[c].state = "returned"
        /\ ~calls[c].was_running
        /\ workers[calls[c].target].task = "done"
        /\ task_store[calls[c].cam] # NoWorker

\* C6: a publish that raises (the per-frame event, camera.connected,
\* person.detected) does not stop or restart the read loop: the exception does
\* not reach the loop's except branch, the worker stays streaming on the same
\* open source and goes on to the rest of frame processing or the next read.
C6_PublishFailureIsolated ==
    [][\A w \in Workers :
          (/\ workers[w].pc \in {"pub_connected", "pub_frame", "pub_person"}
           /\ workers'[w].task = "pending"
           /\ workers'[w].pc # workers[w].pc) =>
              /\ workers'[w].errors = workers[w].errors
              /\ workers'[w].pc \in {"read", "infer"}
              /\ workers'[w].cap = "open"
              /\ workers'[w].opened = workers[w].opened]_vars

\* C7: deep inference that raises is "no detection": no person.detected event,
\* the exception does not reach the loop's except branch, the worker stays
\* streaming on the same source and reads the next frame.
C7_InferenceFailureIsNoDetection ==
    [][\A w \in Workers :
          (/\ workers[w].pc = "infer"
           /\ workers'[w].task = "pending"
           /\ workers'[w].pc \notin {"infer", "imwrite"}) =>
              /\ workers'[w].errors = workers[w].errors
              /\ workers'[w].events = workers[w].events
              /\ workers'[w].pc = "read"
              /\ workers'[w].cap = "open"]_vars

\* C8: a pull worker whose is_running flag is true and on which no stop() is in
\* progress has a read-loop task that has not finished.
C8_RunningWorkerHasLiveTask ==
    \A w \in Workers :
        (/\ workers[w].source_type \in PullTypes
         /\ workers[w].is_running
         /\ ~StopInProgress(w)) => workers[w].task = "pending"

\* C9: when the read-loop task of a worker has finished, every source handle the
\* worker opened has been released.
C9_HandlesReleasedAtStop ==
    \A w \in Workers : workers[w].task = "done" => workers[w].unreleased = 0

\* C10: a stop() issued while the read loop is suspended ends the loop at that
\* suspension point: from the call of stop() on, the worker starts no open
\* attempt, processes no frame, publishes no event and does not move on in
\* _run; and every call suspended in stop() (the only await of the registry
\* functions) is resumed, whether or not the sleep the loop is in elapses
\* (SpecFair states no fairness for timers or I/O).
C10_StopEndsLoopPromptly ==
    /\ [][\A w \in Workers :
            workers[w].stop_called =>
                /\ workers'[w].pc = workers[w].pc
                /\ workers'[w].attempts = workers[w].attempts
                /\ workers'[w].frames = workers[w].frames
                /\ workers'[w].events = workers[w].events]_vars
    /\ \A c \in 1..MaxCalls : []<>(calls[c].state # "awaiting")

\* stop() has returned for a worker whose loop was cancelled in its backoff sleep
C10_Witness ==
    \E w \in Workers :
        /\ workers[w].pc = "backoff"
        /\ workers[w].task = "done"
        /\ workers[w].stop_returned
        /\ ~workers[w].is_running

Event(cid, kind) == [channel |-> Channel(cid), event_type |-> kind]

\* C11: a failed frame read while streaming emits exactly one
\* camera.disconnected event (it reaches the sink), after which the worker
\* releases the handle and opens the source again; the read-loop task never
\* ends unless stop() was called.
C11_ReadFailureReconnects ==
    /\ [](\A w \in Workers : workers[w].task = "done" => workers[w].stop_called)
    /\ [][\A w \in Workers :
            LET r == workers[w]
                q == workers'[w]
                e == Event(r.cam, "camera.disconnected") IN
            /\ (r.pc = "read" /\ q.pc = "pub_read_failed") =>
                    (q.events = r.events /\ sink' = sink /\ q.task = "pending")
            /\ (r.pc = "pub_read_failed" /\ q.pc # r.pc) =>
                    (q.pc = "release" /\ q.events = Append(r.events, e)
                                      /\ sink' = Append(sink, e))
            /\ (r.pc = "release" /\ q.pc # r.pc /\ ~r.stop_event) =>
                    (q.pc = "open" /\ q.task = "pending" /\ q.events = r.events
                                   /\ sink' = sink)]_vars

\* C12: after N put calls on a CircularBuffer of capacity C, get_all() is the
\* last min(N, C) items put, oldest first, so the buffer holds min(N, C) <= C
\* entries, and get_latest() is the item put last (None when N = 0).
C12_RingBufferKeepsNewest ==
    LET N == Len(ring.puts)
        C == ring.capacity
        K == Min(N, C) IN
    /\ get_all(ring.items) = SubSeq(ring.puts, N - K + 1, N)
    /\ Len(get_all(ring.items)) = K
    /\ Len(get_all(ring.items)) <= C
    /\ get_latest(ring.items) = IF N = 0 THEN NoFrame ELSE ring.puts[N]

\* more items were put than the buffer holds, and the oldest ones are gone
C12_Witness ==
    /\ ring.capacity >= 2
    /\ Len(ring.puts) >= ring.capacity + 2
    /\ ring.items # SubSeq(ring.puts, 1, ring.capacity)

\* the camera lacks the connection parameters its source kind requires
MissingParameters(camera) ==
    camera.source_type \in PullTypes \cup {"onvif"} /\ ~camera.source_url

\* C13: register_camera for a camera whose source kind lacks its required
\* connection parameters (a pull source without source_url) is rejected with an
\* error and leaves camera_store, worker_store and task_store unchanged, a
\* previously registered camera and worker of the id included.
C13_RegisterRejectsMissingParameters ==
    [][\A c \in CallIds :
          (/\ calls[c].state = "unused"
           /\ calls'[c].kind = "register_camera"
           /\ MissingParameters(calls'[c].camera)) =>
              /\ calls'[c].state = "raised"
              /\ camera_store' = camera_store
              /\ worker_store' = worker_store
              /\ task_store' = task_store]_vars

\* C14: unregister_camera(id), no other registry call running, never raises
\* and returns True exactly when id was in camera_store at the call; when it has
\* returned id has no camera_store entry, no worker_store entry and no live
\* task; for an id that has no camera, worker or task it returns False at once,
\* publishes nothing and changes no registry and no worker.
C14_UnregisterFrame ==
    [][\A c \in CallIds :
          LET k == calls[c]
              q == calls'[c]
              cid == q.cam
              present == camera_store[cid] # NoCamera IN
          q.kind = "unregister_camera" =>
              /\ q.state # "raised"
              /\ (k.state = "unused" /\ ~present /\ worker_store[cid] = NoWorker
                                     /\ task_store[cid] = NoWorker) =>
                    /\ q.state = "returned" /\ q.ret = "False"
                    /\ camera_store' = camera_store
                    /\ worker_store' = worker_store
                    /\ task_store' = task_store
                    /\ workers' = workers
                    /\ sink' = sink
              /\ (q.state = "awaiting") => ((camera_store'[cid] # NoCamera) <=> present)
              /\ (k.state # "returned" /\ q.state = "returned") =>
                    /\ (q.ret = "True") <=> present
                    /\ q.ret \in {"True", "False"}
                    /\ camera_store'[cid] = NoCamera
                    /\ worker_store'[cid] = NoWorker
                    /\ \A w \in Workers : workers'[w].cam = cid => workers'[w].task # "pending"]_vars

\* unregister_camera returned False for an id without camera and True after it
\* stopped the pull worker of a registered camera
C14_Witness ==
    \E c, d \in CallIds :
        /\ calls[c].kind = "unregister_camera" /\ calls[c].state = "returned"
        /\ calls[c].ret = "False"
        /\ calls[d].kind = "unregister_camera" /\ calls[d].state = "returned"
        /\ calls[d].ret = "True"
        /\ \E w \in Workers : workers[w].task = "done" /\ workers[w].stop_returned

\* C15: for a registered push camera an accepted push (response 200) of a valid
\* image puts a frame.ingested event of the camera on the sink, and an on-demand
\* frame read that follows it returns that frame as an encoded image.
C15_PushThenRead ==
    /\ [](\A c \in CallIds :
            (calls[c].kind = "http_push_ingest" /\ calls[c].ret = "200") =>
                \E i \in DOMAIN sink : sink[i] = Event(calls[c].cam, "frame.ingested"))
    /\ [][\A c \in CallIds \ {1} :
            (/\ calls[c].state = "unused"
             /\ calls'[c].kind = "get_latest_frame"
             /\ calls[c - 1].kind = "http_push_ingest"
             /\ calls[c - 1].ret = "200"
             /\ calls[c - 1].cam = calls'[c].cam) =>
                calls'[c].ret = Jpeg(calls[c - 1].frame)]_vars

\* the events of one camera's channel, in the order the sink received them
ChannelLog(cid) == SelectSeq(sink, LAMBDA e : e.channel = Channel(cid))

\* C17: for one camera id a frame is read only when the processing of the
\* frame before it (its events included) is complete, and on the camera's
\* channel no per-frame or person.detected event follows a camera.disconnected
\* without a camera.connected in between.
C17_EventOrderPerCamera ==
    /\ [](\A cid \in CamIds :
            LET log == ChannelLog(cid) IN
            \A i \in 2..Len(log) :
                log[i].event_type \in {"frame.received", "frame.ingested", "person.detected"}
                    => log[i - 1].event_type # "camera.disconnected")
    /\ [][\A w \in Workers :
            workers'[w].frames # workers[w].frames =>
                (workers[w].pc = "read" /\ workers'[w].frames = workers[w].frames + 1)]_vars

\* C16: once a worker, pull or push, has been stopped through stop_worker or
\* unregister_camera and the call has returned, its is_running flag is false, so
\* its live-sequence generators leave their loop and yield no further frame.
C16_GeneratorEndsAfterStop ==
    \A w \in Workers :
        (workers[w].stop_returned /\ NoCallInFlight) => ~GeneratorLoops(w)

\* the event kinds of the specification
EventKinds ==
    {"camera.connected", "camera.disconnected", "frame.ingested", "motion.detected",
     "person.detected"}

\* C18: every event a worker publishes is sent on the channel derived from its
\* camera's id and has an event kind in {camera.connected, camera.disconnected,
\* frame.ingested, motion.detected, person.detected}.
C18_EventChannelAndKind ==
    /\ \A i \in DOMAIN sink :
          /\ \E cid \in CamIds : sink[i].channel = Channel(cid)
          /\ sink[i].event_type \in EventKinds
    /\ \A w \in Workers : \A i \in DOMAIN workers[w].events :
          /\ workers[w].events[i].channel = Channel(workers[w].cam)
          /\ workers[w].events[i].event_type \in EventKinds

RECURSIVE Pow2(_)
Pow2(n) == IF n <= 0 THEN 1 ELSE 2 * Pow2(n - 1)

\* C19: every failed open of a pull worker publishes exactly one
\* camera.disconnected and is followed by the backoff sleep; the sleep after the
\* k-th failure in a row lasts min(60, 2^(k-1)) seconds; the backoff value is
\* always within [1, 60]; after the first failure it is 2.
C19_BackoffSchedule ==
    /\ [](\A w \in Workers :
            workers[w].task # "none" =>
                (workers[w].reconnect_delay >= InitialReconnectDelay
                 /\ workers[w].reconnect_delay <= MaxReconnectDelay))
    /\ [](\A w \in Workers :
            workers[w].pc = "backoff" =>
                workers[w].reconnect_delay = Min(MaxReconnectDelay, Pow2(workers[w].fails - 1)))
    /\ [][\A w \in Workers :
            LET r == workers[w]
                q == workers'[w] IN
            /\ (r.pc = "pub_open_failed" /\ q.pc # r.pc) =>
                    /\ q.pc = "backoff"
                    /\ q.events = Append(r.events, Event(r.cam, "camera.disconnected"))
            /\ (r.pc = "backoff" /\ q.pc # r.pc /\ r.opened = 1) =>
                    q.reconnect_delay = 2 * InitialReconnectDelay]_vars

\* C20: the successful open of the source resets the backoff value to 1, so
\* the first failed open after a successful one sleeps 1 second.
C20_BackoffResetOnConnect ==
    /\ [](\A w \in Workers :
            (workers[w].pc = "backoff" /\ workers[w].fails = 1) =>
                workers[w].reconnect_delay = InitialReconnectDelay)
    /\ [][\A w \in Workers :
            (/\ workers[w].pc = "pub_connected"
             /\ workers'[w].pc # workers[w].pc) =>
                workers'[w].reconnect_delay = InitialReconnectDelay]_vars

\* C27: no interleaving of concurrent stop_worker, start_worker,
\* register_camera and unregister_camera calls for one camera id makes any of
\* the calls raise.
C27_NoCallRaises == \A c \in CallIds : calls[c].state # "raised"

\* C28: when no stop is in progress, a camera whose status is "connected" has a
\* worker in worker_store that is running, with a live read-loop task and an
\* open source; so after stop_worker(id) has returned the status of a
\* registered pull camera is not "connected".
C28_ConnectedMeansStreaming ==
    \A cid \in CamIds :
        (NoCallInFlight /\ camera_store[cid].status = "connected") =>
            /\ worker_store[cid] # NoWorker
            /\ workers[worker_store[cid]].is_running
            /\ workers[worker_store[cid]].task = "pending"
            /\ workers[worker_store[cid]].cap = "open"

\* a step in which worker w evaluates the frame-skip counter of _process_frame
CounterStep(w) == workers'[w].frame_counter # workers[w].frame_counter

\* ... and the counter lets the frame through to the motion step
ReachesMotionStep(w) == CounterStep(w) /\ workers'[w].frame_counter = 0

\* ... and the detector runs on the frame (the reference or the cooldown changes)
DetectorRuns(w) ==
    /\ ReachesMotionStep(w)
    /\ \/ workers'[w].motion_last_frame # workers[w].motion_last_frame
       \/ workers'[w].yolo_trigger_cooldown_end # workers[w].yolo_trigger_cooldown_end

\* ... and the detector compares the frame against a reference it holds
DetectorCompares(w) ==
    /\ ReachesMotionStep(w)
    /\ now >= workers[w].yolo_trigger_cooldown_end
    /\ workers[w].motion_last_frame # NoFrame

\* the frame handed to _process_frame before the one being processed
PreviousFrame(w) == workers'[w].buffer[Len(workers'[w].buffer) - 1][1]

\* C21: the frame-skip counter lets a processed frame through to the motion
\* step exactly when it is frame K, 2K, 3K, ... (K = frames_to_skip = 5), and
\* on such a frame the detector runs only if the inference cooldown has
\* elapsed.
C21_OneFrameInK ==
    [][\A w \in Workers :
          /\ CounterStep(w) =>
                (ReachesMotionStep(w) <=> workers'[w].frames % frames_to_skip = 0)
          /\ DetectorRuns(w) => now >= workers[w].yolo_trigger_cooldown_end]_vars

\* C23: a frame that reaches the motion step becomes the reference, also while
\* the inference cooldown is active, and a comparison is made against the
\* frame that was handed to frame processing immediately before.
C23_ReferenceIsPreviousFrame ==
    [][\A w \in Workers :
          /\ ReachesMotionStep(w) =>
                workers'[w].motion_last_frame = workers'[w].frame
          /\ DetectorCompares(w) =>
                workers[w].motion_last_frame = PreviousFrame(w)]_vars

\* C22: a fresh worker fed IdenticalFrames (20) identical frames and then one
\* frame with a large changed region invokes inference exactly once: not
\* during the identical frames, and once for the changed frame.
C22_OneInferenceForChangedFrame ==
    \A w \in Workers :
        /\ workers[w].frames <= IdenticalFrames => workers[w].triggers = <<>>
        /\ (workers[w].frames = IdenticalFrames + 1 /\ workers[w].pc # "pub_frame") =>
              /\ Len(workers[w].triggers) = 1
              /\ workers[w].triggers[1].frame = IdenticalFrames + 1

\* the call y of _detect_persons_yolo came after the cooldown armed by the
\* call x had elapsed
AfterCooldown(x, y) == y.tested >= x.at + YOLO_TRIGGER_COOLDOWN

\* C24 (as claimed, per camera): after a positive motion result at time t has
\* triggered inference for a camera, no frame of that camera gives a positive
\* motion result or triggers inference before t + YOLO_TRIGGER_COOLDOWN,
\* whatever it shows and whichever worker of the camera reads it.
C24_TriggerCooldown ==
    \A v, w \in Workers :
        \A i \in DOMAIN workers[v].triggers, j \in DOMAIN workers[w].triggers :
            (workers[v].cam = workers[w].cam /\ (v # w \/ i # j)) =>
                \/ AfterCooldown(workers[v].triggers[i], workers[w].triggers[j])
                \/ AfterCooldown(workers[w].triggers[j], workers[v].triggers[i])

\* C24 (amended, per worker): after a positive motion result at time t has
\* triggered inference in a worker, no frame of that worker gives a positive
\* motion result or triggers inference before t + YOLO_TRIGGER_COOLDOWN,
\* whatever it shows.
C24_WorkerTriggerCooldown ==
    \A w \in Workers : \A i, j \in DOMAIN workers[w].triggers :
        i < j => AfterCooldown(workers[w].triggers[i], workers[w].triggers[j])

\* a frame that differs from the reference passed the skip counter less than
\* YOLO_TRIGGER_COOLDOWN after the trigger of frame 12 and triggered nothing
C24_Witness ==
    \E w \in Workers :
        /\ workers[w].frames = 18
        /\ workers[w].pc = "read"
        /\ workers[w].frame_counter = 0
        /\ Len(workers[w].triggers) = 1
        /\ now < workers[w].triggers[1].at + YOLO_TRIGGER_COOLDOWN
        /\ workers[w].frame # workers[w].motion_last_frame

\* the positions of the person.detected events among the events of worker w
PersonEvents(w) ==
    {i \in DOMAIN workers[w].events : workers[w].events[i].event_type = "person.detected"}

\* every person.detected event of w belongs to a frame on which motion was
\* reported and inference found a person
PersonEventsAreDetections(w) ==
    /\ Cardinality(PersonEvents(w)) <= Len(workers[w].detections)
    /\ \A d \in DOMAIN workers[w].detections :
          \E t \in DOMAIN workers[w].triggers :
              workers[w].triggers[t].frame = workers[w].detections[d].frame

\* C25: person.detected is published only for a frame on which motion was
\* reported and inference returned a detection; two person.detected events of
\* a worker are at least PERSON_COOLDOWN_SECONDS apart; the person cooldown is
\* longer than the inference-trigger cooldown.
C25_PersonEventsApart ==
    /\ PERSON_COOLDOWN_SECONDS > YOLO_TRIGGER_COOLDOWN
    /\ \A w \in Workers :
          /\ PersonEventsAreDetections(w)
          /\ \A i, j \in PersonEvents(w) :
                i < j => workers[w].stamps[j] >=
                            workers[w].stamps[i] + PERSON_COOLDOWN_SECONDS

\* the positions of the per-frame events among the events of a worker r
FrameEvents(r) ==
    {i \in DOMAIN r.events : r.events[i].event_type = "frame.received"}

\* r has published a per-frame event, the last one for a frame of time t
LastFramePublication(r, t) ==
    /\ FrameEvents(r) # {}
    /\ \E i \in FrameEvents(r) :
          /\ \A j \in FrameEvents(r) : j <= i
          /\ r.stamps[i] = t

\* C26 (as claimed, events compared by the timestamp they carry): a worker
\* publishes the throttled per-frame event for a processed frame exactly when
\* more than EVENT_PUB_INTERVAL has elapsed since its previous per-frame
\* publication; two per-frame events of a worker are more than
\* EVENT_PUB_INTERVAL apart; each publication updates the throttle timestamp.
C26_FrameEventThrottle ==
    [][\A w \in Workers :
          /\ workers'[w].frames = workers[w].frames + 1 =>
                (workers'[w].pc = "pub_frame" <=>
                    \A t \in ClockTimes :
                        LastFramePublication(workers[w], t) => now - t > EVENT_PUB_INTERVAL)
          /\ \A i, j \in FrameEvents(workers'[w]) :
                i < j => workers'[w].stamps[j] - workers'[w].stamps[i] > EVENT_PUB_INTERVAL
          /\ FrameEvents(workers'[w]) # FrameEvents(workers[w]) =>
                LastFramePublication(workers'[w], workers'[w].last_event_pub_time)]_vars

\* C26 (amended, publications timed by the clock read of the throttle test,
\* current_time): a worker publishes the per-frame event for a processed frame
\* exactly when current_time is more than EVENT_PUB_INTERVAL after the
\* current_time of its previous per-frame publication (0.0 before the first);
\* each publication sets the throttle timestamp to its current_time and
\* nothing else changes it, so two consecutive publications are more than
\* EVENT_PUB_INTERVAL apart on that clock; every per-frame event is such a
\* publication.
C26_ThrottleByClockRead ==
    [][\A w \in Workers :
          LET r == workers[w]
              q == workers'[w] IN
          /\ q.frames = r.frames + 1 =>
                /\ q.pc = "pub_frame" <=>
                      q.current_time - r.last_event_pub_time > EVENT_PUB_INTERVAL
                /\ q.pc = "pub_frame" =>
                      /\ q.last_event_pub_time = q.current_time
                      /\ q.last_event_pub_time - r.last_event_pub_time > EVENT_PUB_INTERVAL
                /\ q.pc # "pub_frame" => q.last_event_pub_time = r.last_event_pub_time
          /\ (q.frames = r.frames /\ r.cam # NoCam) =>
                q.last_event_pub_time = r.last_event_pub_time
          /\ FrameEvents(q) # FrameEvents(r) =>
                (r.pc = "pub_frame" /\ q.last_event_pub_time = r.last_event_pub_time)]_vars

\* a worker has published two per-frame events that carry timestamps not more
\* than EVENT_PUB_INTERVAL apart (the clock moved between the two reads of the
\* second frame), and a frame it processed in between is in its buffer
C26_Witness ==
    \E w \in Workers :
        /\ Cardinality(FrameEvents(workers[w])) = 2
        /\ \E i, j \in FrameEvents(workers[w]) :
              /\ i < j
              /\ workers[w].stamps[j] - workers[w].stamps[i] <= EVENT_PUB_INTERVAL
        /\ \E k \in DOMAIN workers[w].buffer :
              \A i \in FrameEvents(workers[w]) :
                  workers[w].buffer[k][2] # workers[w].stamps[i]

====
